---- MODULE Spec2Model ----
(***************************************************************************)
(* Diabetic retinopathy detection service (app.py).                        *)
(*                                                                         *)
(* The module models                                                       *)
(*   - the module-level model resolution chain (app.py 20-102), one step   *)
(*     per try block;                                                      *)
(*   - the request handler index() (app.py 129-184), one step per block    *)
(*     of the handler, run by concurrent handler threads;                  *)
(*   - the pure helpers allowed_file, preprocess_image,                    *)
(*     get_prediction_label and the argmax/max decoding, as operators.     *)
(*                                                                         *)
(* Spec   is the running service: start-up resolution, then requests.      *)
(* SpecFn applies the helpers to inputs drawn from bounded sets.           *)
(*                                                                         *)
(* Console output (print) is taken not to fail, so the outer handler of    *)
(* app.py 100-102, which only a failing print could reach, has no step.    *)
(***************************************************************************)
EXTENDS Integers, Sequences, FiniteSets, TLC

VARIABLES
    stage,      \* position of the start-up code in the resolution chain
    model,      \* app.py 21: the module-level handle, None or the network
    calls,      \* load/construct calls made so far, in order
    log,        \* lines printed by the resolution chain
    pc,         \* per handler thread: position inside index()
    req,        \* per handler thread: the request being served
    image,      \* per handler thread: local `image`
    processed,  \* per handler thread: local `processed` (its shape)
    decoded,    \* per handler thread: locals class_idx, confidence, label
    did,        \* per handler thread: operations performed for the request
    resp,       \* per handler thread: response of the last finished request
    uploads,    \* files in UPLOAD_FOLDER
    fn,         \* SpecFn: helper applied, "none" before
    arg,        \* SpecFn: its input
    out,        \* SpecFn: its result
    conv,           \* convert_model.py: position, locals and result of convert_model()
    compatible_h5,  \* the file diabetic_model_compatible.h5
    fresh,          \* create_fresh_model.py: position, locals and result of main()
    fresh_h5        \* the file diabetic_model_fresh.h5

tools == <<conv, compatible_h5, fresh, fresh_h5>>

app == <<stage, model, calls, log, pc, req, image, processed, decoded, did,
         resp, uploads, fn, arg, out>>

vars == <<app, tools>>

None == "None"

(***************************************************************************)
(* Bounds                                                                  *)
(***************************************************************************)
\* Output probabilities are the integers 0..MaxProb (a fixed-point scale).
MaxProb == 1
\* Width and height of the uploads that are not already 224x224.
OtherW == 2
OtherH == 1
\* get_prediction_label is probed on -MaxIdx..MaxIdx.
MaxIdx == 6

\* Handler threads of the server.
Threads == {"t1", "t2"}

(***************************************************************************)
(* Model resolution, app.py 20-102                                         *)
(***************************************************************************)
\* The attempts in source order.  Each is a call and the two lines it can
\* print.
Chain == <<
    [name |-> "fresh", file |-> "diabetic_model_fresh.h5",
     compile |-> TRUE, custom_objects |-> FALSE],
    [name |-> "compatible", file |-> "diabetic_model_compatible.h5",
     compile |-> TRUE, custom_objects |-> FALSE],
    [name |-> "original_basic", file |-> "diabetic_model.h5",
     compile |-> TRUE, custom_objects |-> FALSE],
    [name |-> "original_compile_false", file |-> "diabetic_model.h5",
     compile |-> FALSE, custom_objects |-> FALSE],
    [name |-> "original_custom_objects", file |-> "diabetic_model.h5",
     compile |-> TRUE, custom_objects |-> TRUE],
    [name |-> "original_both", file |-> "diabetic_model.h5",
     compile |-> FALSE, custom_objects |-> TRUE],
    [name |-> "synthesized", file |-> None,
     compile |-> TRUE, custom_objects |-> FALSE] >>

NumAttempts == Len(Chain)

\* The position after the chain: the module body goes on to define the
\* routes and app.run() starts to serve.
Serving == NumAttempts + 1

Names == {Chain[i].name : i \in 1..NumAttempts}

\* The object an attempt yields when it does not raise.
LoadedUnbound(i) == IF i = 2 THEN None ELSE Chain[i].name
Loaded(i) == Chain[i].name

\* Where the chain goes when attempt i raised: the next try block, nested in
\* the except clause of this one; after the last, model = None (line 98).
OnFailureNoSynthesis(i) == IF i < NumAttempts - 1 THEN i + 1 ELSE Serving
OnFailure(i) == IF i < NumAttempts THEN i + 1 ELSE Serving

\* Where the chain goes when attempt i returned: past every except clause.
OnSuccessFallThrough(i) == i + 1
OnSuccess(i) == Serving

\* The handle after attempt i raised.
AfterFailure(i, m) == IF i = NumAttempts THEN None ELSE m

\* One try block of the chain: the call either returns a network, which is
\* bound to `model`, or raises, which is printed.
Attempt(i) ==
    /\ stage = i
    /\ calls' = Append(calls, Chain[i])
    /\ \E ok \in BOOLEAN :
         IF ok
         THEN /\ model' = Loaded(i)
              /\ log' = Append(log, <<"ok", Chain[i].name>>)
              /\ stage' = OnSuccess(i)
         ELSE /\ model' = AfterFailure(i, model)
              /\ log' = Append(log, <<"failed", Chain[i].name>>)
              /\ stage' = OnFailure(i)
    /\ UNCHANGED <<pc, req, image, processed, decoded, did, resp, uploads,
                   fn, arg, out, tools>>

Resolve == \E i \in 1..NumAttempts : Attempt(i)

(***************************************************************************)
(* Results of calls that may raise                                         *)
(***************************************************************************)
Ok(v) == [ok |-> TRUE, val |-> v]
Raise(cause) == [ok |-> FALSE, cause |-> cause]

(***************************************************************************)
(* allowed_file, app.py 13 and 104-106                                     *)
(***************************************************************************)
\* File names are sequences of characters.
Dot == "."

\* str.lower() on the characters used here.
LowerChar(c) ==
    CASE c = "A" -> "a" [] c = "B" -> "b" [] c = "C" -> "c" [] c = "D" -> "d"
      [] c = "E" -> "e" [] c = "F" -> "f" [] c = "G" -> "g" [] c = "H" -> "h"
      [] c = "I" -> "i" [] c = "J" -> "j" [] c = "K" -> "k" [] c = "L" -> "l"
      [] c = "M" -> "m" [] c = "N" -> "n" [] c = "O" -> "o" [] c = "P" -> "p"
      [] c = "Q" -> "q" [] c = "R" -> "r" [] c = "S" -> "s" [] c = "T" -> "t"
      [] c = "U" -> "u" [] c = "V" -> "v" [] c = "W" -> "w" [] c = "X" -> "x"
      [] c = "Y" -> "y" [] c = "Z" -> "z"
      [] OTHER -> c

Lower(s) == [i \in 1..Len(s) |-> LowerChar(s[i])]

ALLOWED_EXTENSIONS ==
    { <<"p", "n", "g">>, <<"j", "p", "g">>, <<"j", "p", "e", "g">>,
      <<"g", "i", "f">> }

HasDot(s) == \E i \in 1..Len(s) : s[i] = Dot

\* Position of the last '.', the split point of rsplit('.', 1).
LastDot(s) == CHOOSE i \in 1..Len(s) :
                  /\ s[i] = Dot
                  /\ \A j \in (i + 1)..Len(s) : s[j] # Dot

FirstDot(s) == CHOOSE i \in 1..Len(s) :
                   /\ s[i] = Dot
                   /\ \A j \in 1..(i - 1) : s[j] # Dot
AfterFirstDot(s) == SubSeq(s, FirstDot(s) + 1, Len(s))
\* filename.rsplit('.', 1)[1]
AfterLastDot(s) == SubSeq(s, LastDot(s) + 1, Len(s))

allowed_file(filename) ==
    HasDot(filename) /\ Lower(AfterLastDot(filename)) \in ALLOWED_EXTENSIONS

(***************************************************************************)
(* secure_filename and the format chosen by Image.save, app.py 167-169     *)
(***************************************************************************)
RECURSIVE StripLeft(_)
StripLeft(s) == IF s # <<>> /\ Head(s) = Dot THEN StripLeft(Tail(s)) ELSE s

RECURSIVE StripRight(_)
StripRight(s) ==
    IF s # <<>> /\ s[Len(s)] = Dot
    THEN StripRight(SubSeq(s, 1, Len(s) - 1)) ELSE s

\* On names made of letters and dots secure_filename keeps the characters
\* and strips the dots at both ends.
secure_filename(s) == StripRight(StripLeft(s))

\* Image.save picks the format from the extension of the path and raises
\* ValueError when there is none it knows.
SaveFormatKnown(name) ==
    HasDot(name) /\ Lower(AfterLastDot(name)) \in ALLOWED_EXTENSIONS

(***************************************************************************)
(* Images and preprocess_image, app.py 108-116 and 151-157                 *)
(***************************************************************************)
IMG_SIZE == 224

Modes == {"RGB", "L", "RGBA"}

\* Number of bands of a PIL mode.
Bands(mode) == CASE mode = "L" -> 1 [] mode = "RGB" -> 3 [] mode = "RGBA" -> 4

\* PIL sizes are (width, height).
Sizes == { <<IMG_SIZE, IMG_SIZE>>, <<OtherW, OtherH>> }

\* What an uploaded file can hold: bytes PIL cannot identify, or an image
\* whose pixel data is complete or cut short.
Undecodable == [kind |-> "undecodable"]
Pictures == [kind : {"image"}, mode : Modes, size : Sizes,
             truncated : BOOLEAN]
Contents == {Undecodable} \cup Pictures

\* Image.open(file): identifies the file and reads the header only.
ImageOpen(content) ==
    IF content.kind = "undecodable" THEN Raise("UnidentifiedImageError")
    ELSE Ok(content)

\* image.convert('RGB'): loads the pixel data, which fails when it is cut
\* short.
ConvertRGB(img) ==
    IF img.truncated THEN Raise("OSError: image file is truncated")
    ELSE Ok([img EXCEPT !.mode = "RGB"])

\* image.resize((224, 224)): loads the pixel data as well.
Resize(img) ==
    IF img.truncated THEN Raise("OSError: image file is truncated")
    ELSE Ok([img EXCEPT !.size = <<IMG_SIZE, IMG_SIZE>>])

\* np.array(image).shape: (height, width) for one band, else
\* (height, width, bands).
ArrayShape(img) ==
    IF Bands(img.mode) = 1 THEN <<img.size[2], img.size[1]>>
    ELSE <<img.size[2], img.size[1], Bands(img.mode)>>

\* np.expand_dims(a, axis=0).shape
ExpandDims(shape) == <<1>> \o shape

\* preprocess_image: resize, array, preprocess_input (which for
\* EfficientNet returns its input), batch dimension.  The result is the
\* shape of the tensor.
preprocess_imageNoResize(img) ==
    IF img.truncated THEN Raise("OSError: image file is truncated")
    ELSE Ok(ExpandDims(ArrayShape(img)))
preprocess_image(img) ==
    LET r == Resize(img)
    IN  IF r.ok THEN Ok(ExpandDims(ArrayShape(r.val))) ELSE r

\* Lines 151-157 of index(): open, convert unless already RGB, preprocess.
\* The value is the pair of locals <<image, processed>> and the operations
\* performed.
PrepareUpload(content) ==
    LET o == ImageOpen(content)
    IN  IF ~o.ok THEN [res |-> o, ops |-> <<"Image.open">>]
        ELSE IF o.val.mode # "RGB"
        THEN LET c == ConvertRGB(o.val)
             IN  IF ~c.ok
                 THEN [res |-> c, ops |-> <<"Image.open", "convert">>]
                 ELSE LET p == preprocess_image(c.val)
                      IN  [res |-> IF p.ok THEN Ok(<<c.val, p.val>>) ELSE p,
                           ops |-> <<"Image.open", "convert",
                                     "preprocess_image">>]
        ELSE LET p == preprocess_image(o.val)
             IN  [res |-> IF p.ok THEN Ok(<<o.val, p.val>>) ELSE p,
                  ops |-> <<"Image.open", "preprocess_image">>]

(***************************************************************************)
(* get_prediction_label, app.py 118-127                                    *)
(***************************************************************************)
Unknown == "Unknown"

labels ==
    [i \in 0..4 |->
        CASE i = 0 -> "No Diabetic Retinopathy"
          [] i = 1 -> "Mild Diabetic Retinopathy"
          [] i = 2 -> "Moderate Diabetic Retinopathy"
          [] i = 3 -> "Severe Diabetic Retinopathy"
          [] i = 4 -> "Proliferative Diabetic Retinopathy"]

\* labels.get(class_idx, "Unknown")
get_prediction_labelClamped(class_idx) ==
    IF class_idx \in DOMAIN labels THEN labels[class_idx]
    ELSE IF class_idx < 0 THEN Unknown ELSE labels[4]
get_prediction_label(class_idx) ==
    IF class_idx \in DOMAIN labels THEN labels[class_idx] ELSE Unknown

(***************************************************************************)
(* Decoding, app.py 162-164                                                *)
(***************************************************************************)
\* np.max over the one row of the output.
RECURSIVE MaxFrom(_, _, _)
MaxFrom(v, i, best) ==
    IF i > Len(v) THEN best
    ELSE MaxFrom(v, i + 1, IF v[i] > best THEN v[i] ELSE best)

NpMax(v) == MaxFrom(v, 2, v[1])

\* np.argmax: a left-to-right scan that moves on a strictly greater value
\* only, so the first maximum wins.  Zero-based.
RECURSIVE ArgMaxFrom(_, _, _)
ArgMaxFrom(v, i, at) ==
    IF i > Len(v) THEN at - 1
    ELSE ArgMaxFrom(v, i + 1, IF v[i] > v[at] THEN i ELSE at)

RECURSIVE ArgMaxLastFrom(_, _, _)
ArgMaxLastFrom(v, i, at) ==
    IF i > Len(v) THEN at - 1
    ELSE ArgMaxLastFrom(v, i + 1, IF v[i] >= v[at] THEN i ELSE at)

NpArgMaxLast(v) == ArgMaxLastFrom(v, 2, 1)
NpArgMax(v) == ArgMaxFrom(v, 2, 1)

\* Lines 162-164: class_idx, confidence, label.  float() of a float32 is
\* exact, so confidence is the maximum itself.
Decode(prediction) ==
    [class_idx |-> NpArgMax(prediction),
     confidence |-> NpMax(prediction),
     label |-> get_prediction_label(NpArgMax(prediction))]

(***************************************************************************)
(* The request handler index(), app.py 129-184                             *)
(***************************************************************************)
\* Names a client may send.
FILENAMES ==
    { <<>>, <<"a">>, <<"a", ".", "t", "x", "t">>,
      <<"a", ".", "P", "N", "G">>, <<".", "g", "i", "f">> }

\* Images a client may send to the service (every mode, whole or cut short).
ServedContents ==
    {Undecodable} \cup
    {p \in Pictures : p.size = <<OtherW, OtherH>>}

NoFile == [present |-> FALSE]
Files == {NoFile} \cup
         [present : {TRUE}, filename : FILENAMES, content : ServedContents]

Requests == {[method |-> "GET", file |-> NoFile]} \cup
            [method : {"POST"}, file : Files]

\* Output rows a network can produce: one value per class; a loaded
\* artifact need not have five outputs.
NUM_CLASSES == 5
Rows(n) == [1..n -> 0..MaxProb]
Widths == {NUM_CLASSES, NUM_CLASSES + 1}
Outputs == UNION {Rows(n) : n \in Widths}

\* The rows the served network answers with: a single peak at each class,
\* and a tie from each class on.
PeakRow(n, k) == [i \in 1..n |-> IF i = k THEN MaxProb ELSE 0]
TieRow(n, k) == [i \in 1..n |-> IF i >= k THEN MaxProb ELSE 0]
ServedOutputs ==
    UNION {{PeakRow(n, k) : k \in 1..n} \cup {TieRow(n, k) : k \in 1..n} :
           n \in Widths}

\* Flashed messages: a fixed text, and for the handler of lines 180-182
\* the text of the exception after it.
Flash(text, cause) == <<text, cause>>
MsgNoFile == Flash("No file selected", "")
MsgInvalidType ==
    Flash("Invalid file type. Please upload PNG, JPG, JPEG, or GIF files.",
          "")
MsgUnavailable ==
    Flash("Model not available. Please check if diabetic_model.h5 exists.",
          "")
MsgErrorNoCause(cause) == Flash("Error processing image: ", "")
MsgError(cause) == Flash("Error processing image: ", cause)

NoReq == [method |-> "none"]
NoImage == [kind |-> "none"]
NoShape == <<>>
NoDecoded == [class_idx |-> -1, confidence |-> -1, label |-> "none"]
NoResp == [kind |-> "none"]
NoArg == [for |-> "none", idx |-> 0, row |-> <<>>, content |-> Undecodable,
          name |-> <<>>]

Redirect(msg) == [kind |-> "redirect", flash |-> msg]
IndexPage == [kind |-> "index.html"]
ResultPageOneBased(d, filename) ==
    [kind |-> "result.html", prediction |-> d.class_idx + 1,
     label |-> d.label, confidence |-> d.confidence,
     image_filename |-> filename]
ResultPage(d, filename) ==
    [kind |-> "result.html", prediction |-> d.class_idx, label |-> d.label,
     confidence |-> d.confidence, image_filename |-> filename]

\* The handler returns: its locals die, the response is kept.
Return(t, response) ==
    /\ resp' = [resp EXCEPT ![t] = response]
    /\ pc' = [pc EXCEPT ![t] = "idle"]
    /\ req' = [req EXCEPT ![t] = NoReq]
    /\ image' = [image EXCEPT ![t] = NoImage]
    /\ processed' = [processed EXCEPT ![t] = NoShape]
    /\ decoded' = [decoded EXCEPT ![t] = NoDecoded]

\* Lines 131-147 and 184: the checks on the upload, in order.  A request
\* that fails one is answered at once.
Accepted == [accepted |-> TRUE]
Answered(response) == [accepted |-> FALSE, response |-> response]

ValidateTypeFirst(r) ==
    IF r.method # "POST" THEN Answered(IndexPage)
    ELSE IF ~r.file.present THEN Answered(Redirect(MsgNoFile))
    ELSE IF ~allowed_file(r.file.filename)
    THEN Answered(Redirect(MsgInvalidType))
    ELSE IF r.file.filename = <<>> THEN Answered(Redirect(MsgNoFile))
    ELSE Accepted
Validate(r) ==
    IF r.method # "POST" THEN Answered(IndexPage)
    ELSE IF ~r.file.present THEN Answered(Redirect(MsgNoFile))
    ELSE IF r.file.filename = <<>> THEN Answered(Redirect(MsgNoFile))
    ELSE IF ~allowed_file(r.file.filename)
    THEN Answered(Redirect(MsgInvalidType))
    ELSE Accepted

\* A request arrives at a handler thread.  The server accepts requests
\* only after the module body, and with it the resolution chain, has run.
Receive(t) ==
    /\ stage = Serving
    /\ pc[t] = "idle"
    /\ \E r \in Requests : req' = [req EXCEPT ![t] = r]
    /\ pc' = [pc EXCEPT ![t] = "validate"]
    /\ did' = [did EXCEPT ![t] = <<>>]
    /\ resp' = [resp EXCEPT ![t] = NoResp]
    /\ UNCHANGED <<image, processed, decoded>>
    /\ UNCHANGED <<stage, model, calls, log, uploads, fn, arg, out, tools>>

\* Lines 131-147 and 184: the request is answered at once or goes on to
\* the try block.
ValidateUpload(t) ==
    /\ pc[t] = "validate"
    /\ LET v == Validate(req[t])
       IN  IF v.accepted
           THEN /\ pc' = [pc EXCEPT ![t] = "open"]
                /\ UNCHANGED <<req, image, processed, decoded, resp>>
           ELSE Return(t, v.response)
    /\ UNCHANGED <<stage, model, calls, log, did, uploads, fn, arg, out, tools>>

\* Lines 151-157: open, convert, preprocess; an exception goes to the
\* handler of lines 180-182.
Prepare(t) ==
    /\ pc[t] = "open"
    /\ LET p == PrepareUpload(req[t].file.content)
       IN  /\ did' = [did EXCEPT ![t] = @ \o p.ops]
           /\ IF p.res.ok
              THEN /\ image' = [image EXCEPT ![t] = p.res.val[1]]
                   /\ processed' = [processed EXCEPT ![t] = p.res.val[2]]
                   /\ pc' = [pc EXCEPT ![t] = "check"]
                   /\ UNCHANGED <<req, decoded, resp>>
              ELSE Return(t, Redirect(MsgError(p.res.cause)))
    /\ UNCHANGED <<stage, model, calls, log, uploads, fn, arg, out, tools>>

\* Lines 160 and 176-178: the test of the handle.
CheckModelRetry(t) ==
    /\ pc[t] = "check"
    /\ did' = [did EXCEPT ![t] = Append(@, "check_model")]
    /\ IF model # None
       THEN /\ pc' = [pc EXCEPT ![t] = "predict"]
            /\ UNCHANGED <<req, image, processed, decoded, resp, stage>>
       ELSE /\ Return(t, Redirect(MsgUnavailable))
            /\ stage' = 1
    /\ UNCHANGED <<model, calls, log, uploads, fn, arg, out, tools>>
CheckModelNoTest(t) ==
    /\ pc[t] = "check"
    /\ did' = [did EXCEPT ![t] = Append(@, "check_model")]
    /\ pc' = [pc EXCEPT ![t] = "predict"]
    /\ UNCHANGED <<req, image, processed, decoded, resp>>
    /\ UNCHANGED <<stage, model, calls, log, uploads, fn, arg, out, tools>>
CheckModel(t) ==
    /\ pc[t] = "check"
    /\ did' = [did EXCEPT ![t] = Append(@, "check_model")]
    /\ IF model # None
       THEN /\ pc' = [pc EXCEPT ![t] = "predict"]
            /\ UNCHANGED <<req, image, processed, decoded, resp>>
       ELSE Return(t, Redirect(MsgUnavailable))
    /\ UNCHANGED <<stage, model, calls, log, uploads, fn, arg, out, tools>>

\* Lines 161-164: the forward pass, which may raise, and the decoding of
\* its output.  The handle is read again here.
PredictRetry(t) ==
    /\ pc[t] = "predict"
    /\ did' = [did EXCEPT ![t] = Append(@, "model.predict")]
    /\ IF model = None
       THEN Return(t, Redirect(MsgError("AttributeError")))
       ELSE \/ \E prediction \in ServedOutputs :
                 /\ decoded' = [decoded EXCEPT ![t] = Decode(prediction)]
                 /\ pc' = [pc EXCEPT ![t] = "save"]
                 /\ UNCHANGED <<req, image, processed, resp>>
            \/ UNCHANGED <<pc, req, image, processed, decoded, resp>>
    /\ UNCHANGED <<stage, model, calls, log, uploads, fn, arg, out, tools>>
Predict(t) ==
    /\ pc[t] = "predict"
    /\ did' = [did EXCEPT ![t] = Append(@, "model.predict")]
    /\ IF model = None
       THEN Return(t, Redirect(MsgError("AttributeError")))
       ELSE \/ \E prediction \in ServedOutputs :
                 /\ decoded' = [decoded EXCEPT ![t] = Decode(prediction)]
                 /\ pc' = [pc EXCEPT ![t] = "save"]
                 /\ UNCHANGED <<req, image, processed, resp>>
            \/ Return(t, Redirect(MsgError("InferenceError")))
    /\ UNCHANGED <<stage, model, calls, log, uploads, fn, arg, out, tools>>

SaveSkipsWrite(t) ==
    /\ pc[t] = "save"
    /\ did' = [did EXCEPT ![t] = Append(@, "render_template")]
    /\ UNCHANGED uploads
    /\ Return(t, ResultPage(decoded[t],
                            secure_filename(req[t].file.filename)))
    /\ UNCHANGED <<stage, model, calls, log, fn, arg, out, tools>>
\* Lines 166-175: save the upload, render the result.  Image.save raises
\* ValueError before touching the file when the name has no known
\* extension; an OSError can come before the file is opened or while it is
\* written, and then leaves it incomplete.
Save(t) ==
    /\ pc[t] = "save"
    /\ LET filename == secure_filename(req[t].file.filename)
       IN  \/ /\ ~SaveFormatKnown(filename)
              /\ did' = [did EXCEPT ![t] = Append(@, "image.save")]
              /\ UNCHANGED uploads
              /\ Return(t, Redirect(MsgError("ValueError")))
           \/ /\ SaveFormatKnown(filename)
              /\ did' = [did EXCEPT ![t] = Append(@, "image.save")]
              /\ \/ UNCHANGED uploads
                 \/ uploads' = [uploads EXCEPT ![filename] = "partial"]
              /\ Return(t, Redirect(MsgError("OSError")))
           \/ /\ SaveFormatKnown(filename)
              /\ did' = [did EXCEPT ![t] =
                            @ \o <<"image.save", "render_template">>]
              /\ uploads' = [uploads EXCEPT ![filename] = "image"]
              /\ Return(t, ResultPage(decoded[t], filename))
    /\ UNCHANGED <<stage, model, calls, log, fn, arg, out, tools>>

Handle == \E t \in Threads :
              \/ Receive(t)
              \/ ValidateUpload(t)
              \/ Prepare(t)
              \/ CheckModel(t)
              \/ Predict(t)
              \/ Save(t)

\* Names under which an upload can be stored.
StoredNames == {secure_filename(f) : f \in {g \in FILENAMES : allowed_file(g)}}

(***************************************************************************)
(* convert_model.py: convert_model()                                       *)
(***************************************************************************)
\* Layers of the Sequential built by create_compatible_model, lines 19-26.
CompatLayers == 6

\* Most layers in the original artifact.
MaxOrigLayers == 7

Min(a, b) == IF a < b THEN a ELSE b

\* Contents of a model file.
File(kind, weights) == [kind |-> kind, weights |-> weights]
Absent == File("absent", <<>>)
Earlier == File("earlier", <<>>)
Partial == File("partial", <<>>)
Untrained == File("untrained", <<>>)

\* A failed save raises before the file is opened or while it is written.
AfterFailedSave(file) == {file, Partial}

NotRun == [pc |-> "off", layers |-> 0, i |-> 0, weights |-> <<>>,
           did |-> <<>>, ret |-> "none"]

ConvStep(position, op, outcome) ==
    [conv EXCEPT !.pc = position, !.did = Append(@, <<op, outcome>>)]

\* Line 81: any exception raised inside the try block enters the fallback.
ConvExcept(op) == ConvStep("fallback_create", op, "raised")

\* An exception raised inside the except block leaves convert_model.
ConvPropagate(op) == [ConvStep("done", op, "raised") EXCEPT !.ret = "raised"]

\* Line 43.
ConvLoad ==
    /\ conv.pc = "load"
    /\ \/ \E n \in 0..MaxOrigLayers :
             conv' = [ConvStep("create", "load_model", "ok")
                         EXCEPT !.layers = n]
       \/ conv' = ConvExcept("load_model")
    /\ UNCHANGED <<compatible_h5, fresh, fresh_h5, app>>

\* Line 47.
ConvCreate ==
    /\ conv.pc = "create"
    /\ \/ conv' = [ConvStep("copy", "create_compatible_model", "ok")
                      EXCEPT !.i = 1]
       \/ conv' = ConvExcept("create_compatible_model")
    /\ UNCHANGED <<compatible_h5, fresh, fresh_h5, app>>

\* Lines 51-58, one pair of zip(original.layers, compatible.layers): the
\* inner try keeps a failure of get_weights or set_weights inside the loop.
ConvCopyLayer ==
    /\ conv.pc = "copy"
    /\ conv.i <= Min(conv.layers, CompatLayers)
    /\ \E w \in {"copied", "initial"} :
          conv' = [conv EXCEPT !.i = @ + 1, !.weights = Append(@, w)]
    /\ UNCHANGED <<compatible_h5, fresh, fresh_h5, app>>

\* Line 61, reached when zip is exhausted.
ConvSave ==
    /\ conv.pc = "copy"
    /\ conv.i > Min(conv.layers, CompatLayers)
    /\ \/ /\ conv' = ConvStep("test", "save", "ok")
          /\ compatible_h5' = File("converted", conv.weights)
       \/ /\ conv' = ConvExcept("save")
          /\ compatible_h5' \in AfterFailedSave(compatible_h5)
    /\ UNCHANGED <<fresh, fresh_h5, app>>

ConvTestSwallows ==
    /\ conv.pc = "test"
    /\ \/ conv' = [ConvStep("done", "predict", "ok") EXCEPT !.ret = "True"]
       \/ conv' = [ConvStep("done", "predict", "raised")
                      EXCEPT !.ret = "True"]
    /\ UNCHANGED <<compatible_h5, fresh, fresh_h5, app>>
\* Lines 66-79: the test prediction and `return True`.
ConvTest ==
    /\ conv.pc = "test"
    /\ \/ conv' = [ConvStep("done", "predict", "ok") EXCEPT !.ret = "True"]
       \/ conv' = ConvExcept("predict")
    /\ UNCHANGED <<compatible_h5, fresh, fresh_h5, app>>

\* Line 86, inside the except block.
ConvFallbackCreate ==
    /\ conv.pc = "fallback_create"
    /\ \/ conv' = ConvStep("fallback_save", "fallback_create", "ok")
       \/ conv' = ConvPropagate("fallback_create")
    /\ UNCHANGED <<compatible_h5, fresh, fresh_h5, app>>

\* Lines 87-91.
ConvFallbackSave ==
    /\ conv.pc = "fallback_save"
    /\ \/ /\ conv' = [ConvStep("done", "fallback_save", "ok")
                         EXCEPT !.ret = "False"]
          /\ compatible_h5' = Untrained
       \/ /\ conv' = ConvPropagate("fallback_save")
          /\ compatible_h5' \in AfterFailedSave(compatible_h5)
    /\ UNCHANGED <<fresh, fresh_h5, app>>

(***************************************************************************)
(* create_fresh_model.py: main() and test_model()                          *)
(***************************************************************************)
FreshNotRun == [pc |-> "off", test_success |-> "none", did |-> <<>>,
                ret |-> "none"]

FreshStep(position, op, outcome) ==
    [fresh EXCEPT !.pc = position, !.did = Append(@, <<op, outcome>>)]

\* Line 71: create_fresh_model() is called outside any try.
FreshCreate ==
    /\ fresh.pc = "create"
    /\ \/ fresh' = FreshStep("test", "create_fresh_model", "ok")
       \/ fresh' = [FreshStep("done", "create_fresh_model", "raised")
                       EXCEPT !.ret = "raised"]
    /\ UNCHANGED <<conv, compatible_h5, fresh_h5, app>>

\* Lines 36-63 called from line 74: test_model returns True when the
\* prediction was made and False when anything in its try block raised.
FreshTest ==
    /\ fresh.pc = "test"
    /\ \/ fresh' = [FreshStep("branch", "predict", "ok")
                       EXCEPT !.test_success = "True"]
       \/ fresh' = [FreshStep("branch", "predict", "raised")
                       EXCEPT !.test_success = "False"]
    /\ UNCHANGED <<conv, compatible_h5, fresh_h5, app>>

FreshSaveUnconditional ==
    /\ fresh.pc = "branch"
    /\ \/ /\ fresh' = [FreshStep("done", "save", "ok") EXCEPT !.ret = "True"]
          /\ fresh_h5' = Untrained
       \/ /\ fresh' = [FreshStep("done", "save", "raised")
                          EXCEPT !.ret = "raised"]
          /\ fresh_h5' \in AfterFailedSave(fresh_h5)
    /\ UNCHANGED <<conv, compatible_h5, app>>
\* Lines 76-85.
FreshSave ==
    /\ fresh.pc = "branch"
    /\ fresh.test_success = "True"
    /\ \/ /\ fresh' = [FreshStep("done", "save", "ok") EXCEPT !.ret = "True"]
          /\ fresh_h5' = Untrained
       \/ /\ fresh' = [FreshStep("done", "save", "raised")
                          EXCEPT !.ret = "raised"]
          /\ fresh_h5' \in AfterFailedSave(fresh_h5)
    /\ UNCHANGED <<conv, compatible_h5, app>>

\* Lines 86-88.
FreshGiveUp ==
    /\ fresh.pc = "branch"
    /\ fresh.test_success # "True"
    /\ fresh' = [fresh EXCEPT !.pc = "done", !.ret = "False"]
    /\ UNCHANGED <<conv, compatible_h5, fresh_h5, app>>

(***************************************************************************)
(* The service                                                             *)
(***************************************************************************)
Init ==
    /\ stage = 1
    /\ model = None
    /\ calls = <<>>
    /\ log = <<>>
    /\ pc = [t \in Threads |-> "idle"]
    /\ req = [t \in Threads |-> NoReq]
    /\ image = [t \in Threads |-> NoImage]
    /\ processed = [t \in Threads |-> NoShape]
    /\ decoded = [t \in Threads |-> NoDecoded]
    /\ did = [t \in Threads |-> <<>>]
    /\ resp = [t \in Threads |-> NoResp]
    /\ uploads = [n \in StoredNames |-> "absent"]
    /\ fn = "none"
    /\ arg = NoArg
    /\ out = None
    /\ conv = NotRun
    /\ compatible_h5 = Absent
    /\ fresh = FreshNotRun
    /\ fresh_h5 = Absent

Next == Resolve \/ Handle

Spec == Init /\ [][Next]_vars

(***************************************************************************)
(* The helpers on their own                                                *)
(***************************************************************************)
\* An input names the helper it is for and fills that helper's field.
Input(for, idx, row, content, name) ==
    [for |-> for, idx |-> idx, row |-> row, content |-> content,
     name |-> name]

\* File names handed to allowed_file: a stem, with or without a '.', and an
\* ending in lower case, in upper case and capitalised.
UpperChar(c) ==
    IF \E u \in {"P", "N", "G", "J", "E", "I", "F", "T", "X", "D", "S"} : LowerChar(u) = c /\ u # c
    THEN CHOOSE u \in {"P", "N", "G", "J", "E", "I", "F", "T", "X", "D", "S"} : LowerChar(u) = c /\ u # c
    ELSE c
Upper(s) == [i \in 1..Len(s) |-> UpperChar(s[i])]
Capital(s) == [i \in 1..Len(s) |-> IF i = 1 THEN UpperChar(s[i]) ELSE s[i]]

Stems == {<<>>, <<"a">>, <<"t", "e", "s", "t">>, <<"a", ".", "b">>, <<"a", ".">>, <<"p", "n", "g">>, <<"a", ".", "p", "n", "g">>}
Endings ==
    {<<>>, <<"p", "n", "g">>, <<"j", "p", "g">>, <<"j", "p", "e", "g">>, <<"g", "i", "f">>,
     <<"t", "x", "t">>, <<"p", "d", "f">>, <<"p", "n">>, <<"p", "n", "g", "s">>, <<"j", "p", "e">>,
     <<"p", "n", "g", ".">>, <<"p", "n", "g", ".", "t", "x", "t">>, <<"t", "x", "t", ".", "p", "n", "g">>, <<"t", "e", "s", "t">>}
Cased == Endings \cup {Upper(e) : e \in Endings}
                 \cup {Capital(e) : e \in Endings}
NAMES == {stem \o sepr \o e :
             stem \in Stems, sepr \in {<<>>, <<Dot>>}, e \in Cased}


FnInputs ==
    {Input("get_prediction_label", i, <<>>, Undecodable, <<>>) :
        i \in (0 - MaxIdx)..MaxIdx} \cup
    {Input("decode", 0, v, Undecodable, <<>>) : v \in Outputs} \cup
    {Input("result", 0, v, Undecodable, <<>>) : v \in Outputs} \cup
    {Input("preprocess_image", 0, <<>>, p, <<>>) : p \in Pictures} \cup
    {Input("prepare", 0, <<>>, c, <<>>) : c \in Contents} \cup
    {Input("allowed_file", 0, <<>>, Undecodable, n) : n \in NAMES}

InitFn ==
    /\ stage = 1
    /\ model = None
    /\ calls = <<>>
    /\ log = <<>>
    /\ pc = [t \in Threads |-> "idle"]
    /\ req = [t \in Threads |-> NoReq]
    /\ image = [t \in Threads |-> NoImage]
    /\ processed = [t \in Threads |-> NoShape]
    /\ decoded = [t \in Threads |-> NoDecoded]
    /\ did = [t \in Threads |-> <<>>]
    /\ resp = [t \in Threads |-> NoResp]
    /\ uploads = [n \in StoredNames |-> "absent"]
    /\ fn = "none"
    /\ arg \in FnInputs
    /\ out = None
    /\ conv = NotRun
    /\ compatible_h5 = Absent
    /\ fresh = FreshNotRun
    /\ fresh_h5 = Absent

Apply(name, result) ==
    /\ fn = "none"
    /\ arg.for = name
    /\ fn' = name
    /\ out' = result
    /\ UNCHANGED <<stage, model, calls, log, pc, req, image, processed,
                   decoded, did, resp, uploads, arg, tools>>

ApplyLabel == Apply("get_prediction_label", get_prediction_label(arg.idx))

ApplyDecode == Apply("decode", Decode(arg.row))

\* Lines 162-175 on one output row: the values handed to result.html.
ApplyResult ==
    Apply("result",
          ResultPage(Decode(arg.row),
                     secure_filename(<<"a", ".", "P", "N", "G">>)))

ApplyPreprocess == Apply("preprocess_image", preprocess_image(arg.content))

ApplyPrepare == Apply("prepare", PrepareUpload(arg.content).res)

ApplyAllowed == Apply("allowed_file", allowed_file(arg.name))

NextFn == \/ ApplyLabel
          \/ ApplyDecode
          \/ ApplyResult
          \/ ApplyPreprocess
          \/ ApplyPrepare
          \/ ApplyAllowed

SpecFn == InitFn /\ [][NextFn]_vars

(***************************************************************************)
(* The two scripts, run from the command line                              *)
(***************************************************************************)
InitTools ==
    /\ stage = 1
    /\ model = None
    /\ calls = <<>>
    /\ log = <<>>
    /\ pc = [t \in Threads |-> "idle"]
    /\ req = [t \in Threads |-> NoReq]
    /\ image = [t \in Threads |-> NoImage]
    /\ processed = [t \in Threads |-> NoShape]
    /\ decoded = [t \in Threads |-> NoDecoded]
    /\ did = [t \in Threads |-> <<>>]
    /\ resp = [t \in Threads |-> NoResp]
    /\ uploads = [n \in StoredNames |-> "absent"]
    /\ fn = "none"
    /\ arg = NoArg
    /\ out = None
    /\ conv = [NotRun EXCEPT !.pc = "load"]
    /\ compatible_h5 \in {Absent, Earlier}
    /\ fresh = [FreshNotRun EXCEPT !.pc = "create"]
    /\ fresh_h5 \in {Absent, Earlier}

Convert == \/ ConvLoad
           \/ ConvCreate
           \/ ConvCopyLayer
           \/ ConvSave
           \/ ConvTest
           \/ ConvFallbackCreate
           \/ ConvFallbackSave

Fresh == \/ FreshCreate
         \/ FreshTest
         \/ FreshSave
         \/ FreshGiveUp

NextTools == Convert \/ Fresh

SpecTools == InitTools /\ [][NextTools]_vars

(***************************************************************************)
(* Properties of the resolution chain                                      *)
(***************************************************************************)
Failed(k) == k \in 1..Len(log) /\ log[k][1] = "failed"
Succeeded(k) == k \in 1..Len(log) /\ log[k][1] = "ok"

\* C1: the attempts are made in the order fresh, compatible, original by
\* default load, compile=False, empty custom_objects, both, then synthesis;
\* an attempt is made only after every earlier one raised; after one that
\* returned no further attempt is made, so a loadable fresh artifact leaves
\* one call.
C1_FixedOrderFirstSuccess ==
    /\ Len(log) = Len(calls)
    /\ Len(calls) <= 7
    /\ \A k \in 1..Len(calls) :
         /\ calls[k].name =
              <<"fresh", "compatible", "original_basic",
                "original_compile_false", "original_custom_objects",
                "original_both", "synthesized">>[k]
         /\ log[k][2] = calls[k].name
         /\ \A j \in 1..(k - 1) : Failed(j)
         /\ Succeeded(k) => k = Len(calls) /\ stage = Serving
    /\ stage \in 1..7 => Len(calls) = stage - 1
    /\ Succeeded(1) => Len(calls) = 1

C1_Witness ==
    /\ stage = Serving
    /\ Len(calls) = 4
    /\ Succeeded(4)
    /\ calls[4].file = "diabetic_model.h5"
    /\ ~calls[4].compile

Finished(t) == pc[t] = "idle" /\ did[t] # <<>>
Did(t, op) == \E k \in 1..Len(did[t]) : did[t][k] = op

\* C3: when synthesis raises after every load raised, the chain ends with
\* the handle absent, and every request that comes to the prediction step
\* is answered with the model-unavailable redirect: none runs the forward
\* pass, none is left without a response.
C3_UnavailableAfterExhaustion ==
    Failed(7) =>
        /\ stage = Serving
        /\ model = None
        /\ \A t \in Threads :
             /\ pc[t] \notin {"predict", "save"}
             /\ ~Did(t, "model.predict")
             /\ Finished(t) => resp[t].kind \in {"redirect"}
             /\ Finished(t) /\ Did(t, "check_model") =>
                    resp[t] = Redirect(MsgUnavailable)

C3_Witness ==
    /\ Failed(7)
    /\ model = None
    /\ \A t \in Threads :
         /\ Finished(t)
         /\ Did(t, "check_model")
         /\ resp[t] = Redirect(MsgUnavailable)

(***************************************************************************)
(* Properties of requests                                                  *)
(***************************************************************************)
\* C4: with the handle absent, every finished request that carried an
\* accepted upload is answered with the same model-unavailable redirect,
\* whatever the uploaded bytes, without a forward pass and without a result
\* page.
C4_UnavailableForEveryUpload ==
    (stage = Serving /\ model = None) =>
        \A t \in Threads :
            Finished(t) =>
                /\ resp[t] = Redirect(MsgUnavailable)
                /\ ~Did(t, "model.predict")

\* C5: the chain never stops short: while it has not ended another attempt
\* can be made, and it ends either with the handle bound to what the last
\* attempt returned or, only after all seven attempts raised, with the
\* handle absent.
C5_ChainAlwaysEnds ==
    /\ stage \in 1..7 \/ stage = Serving
    /\ stage \in 1..7 => ENABLED Resolve /\ model = None
    /\ stage = Serving =>
         \/ /\ model # None
            /\ Succeeded(Len(log))
            /\ model = log[Len(log)][2]
         \/ /\ model = None
            /\ Len(log) = 7
            /\ \A k \in 1..7 : Failed(k)

C5_Witness ==
    /\ stage = Serving
    /\ model = "original_both"
    /\ \A k \in 1..5 : Failed(k)

\* C6: no request is accepted before the chain has ended, and from then on
\* no step changes the handle, makes another load or construction call, or
\* restarts the chain.
C6_HandleSetOnceAtStartup ==
    [][/\ stage # Serving =>
            \A t \in Threads : pc[t] = "idle" /\ did[t] = <<>>
                               /\ resp[t] = NoResp
       /\ stage = Serving =>
            model' = model /\ calls' = calls /\ log' = log
            /\ stage' = Serving]_vars

C6_Witness ==
    /\ stage = Serving
    /\ model = "compatible"
    /\ Len(calls) = 2
    /\ resp["t1"].kind = "result.html"
    /\ resp["t2"] = Redirect(MsgError("InferenceError"))
    /\ uploads # [n \in StoredNames |-> "absent"]

(***************************************************************************)
(* Properties of the helpers                                               *)
(***************************************************************************)
\* C7 as stated: preprocess_image returns shape (1, 224, 224, 3) for an
\* image of any mode and size.
C7_PreprocessAlwaysThreeChannels ==
    (fn = "preprocess_image" /\ out.ok) =>
        out.val = <<1, 224, 224, 3>>

\* C7 as amended: the tensor index() builds from an upload of any mode and
\* size has shape (1, 224, 224, 3), the image being converted to RGB by
\* index() before preprocess_image; preprocess_image alone always resizes to
\* 224x224 and adds the batch dimension, and keeps the bands of its input:
\* (1, 224, 224, 3) for RGB, (1, 224, 224, 4) for RGBA, (1, 224, 224) for L.
C7_HandlerTensorShape ==
    /\ (fn = "prepare" /\ out.ok) =>
           /\ out.val[2] = <<1, 224, 224, 3>>
           /\ out.val[1].mode = "RGB"
    /\ (fn = "preprocess_image" /\ out.ok) =>
           out.val = CASE arg.content.mode = "RGB" -> <<1, 224, 224, 3>>
                       [] arg.content.mode = "RGBA" -> <<1, 224, 224, 4>>
                       [] arg.content.mode = "L" -> <<1, 224, 224>>
    /\ fn \in {"prepare", "preprocess_image"} =>
           (out.ok <=> (arg.content.kind = "image"
                        /\ ~arg.content.truncated))

C7_Witness ==
    /\ fn = "prepare"
    /\ arg.content.kind = "image"
    /\ arg.content.mode = "L"
    /\ arg.content.size # <<224, 224>>
    /\ out.ok

\* C8: for an output row of five values the class index is the position,
\* counted from 0, of the first entry that equals the greatest entry, and
\* the confidence is that entry.
C8_ArgmaxLowestIndex ==
    (fn = "decode" /\ Len(arg.row) = 5) =>
        /\ out.class_idx \in 0..4
        /\ out.confidence = arg.row[out.class_idx + 1]
        /\ \A j \in 1..5 : arg.row[j] <= out.confidence
        /\ \A j \in 1..out.class_idx : arg.row[j] < out.confidence

C8_Witness ==
    /\ fn = "decode"
    /\ arg.row = <<0, MaxProb, 0, MaxProb, 0>>
    /\ out.class_idx = 1
    /\ out.confidence = MaxProb

\* C9: the label of each index 0..4 is that index's severity name, the
\* five names differ, and every other integer has the label "Unknown".
C9_LabelMapTotal ==
    /\ fn = "get_prediction_label" =>
         out = CASE arg.idx = 0 -> "No Diabetic Retinopathy"
                 [] arg.idx = 1 -> "Mild Diabetic Retinopathy"
                 [] arg.idx = 2 -> "Moderate Diabetic Retinopathy"
                 [] arg.idx = 3 -> "Severe Diabetic Retinopathy"
                 [] arg.idx = 4 -> "Proliferative Diabetic Retinopathy"
                 [] OTHER -> "Unknown"
    /\ fn = "get_prediction_label" /\ arg.idx \in 0..4 =>
         /\ out # "Unknown"
         /\ \A j \in (0..4) \ {arg.idx} : get_prediction_label(j) # out

C9_Witness ==
    /\ fn = "get_prediction_label"
    /\ arg.idx = 5
    /\ out = "Unknown"

\* C10: the label handed to the result page is the label of the class index
\* handed to it, and for an output row of five values it is not "Unknown".
C10_LabelMatchesIndex ==
    fn = "result" =>
        /\ out.label = get_prediction_label(out.prediction)
        /\ Len(arg.row) = 5 => out.label # "Unknown"

C10_Witness ==
    /\ fn = "result"
    /\ Len(arg.row) = 5
    /\ out.prediction = 4
    /\ out.label = "Proliferative Diabetic Retinopathy"

(***************************************************************************)
(* Properties of the request handler                                       *)
(***************************************************************************)
Unreadable(c) == IF c.kind = "undecodable" THEN TRUE ELSE c.truncated
Count(t, op) == Cardinality({k \in 1..Len(did[t]) : did[t][k] = op})

\* C11: a request whose upload cannot be identified, or whose pixel data
\* cannot be loaded, ends in the redirect that flashes "Error processing
\* image: " followed by the text of the exception raised; it runs no forward
\* pass, renders no result and stores nothing.
C11_UnreadableImageSurfaced ==
    [][\A t \in Threads :
          (pc[t] = "open" /\ pc'[t] # "open"
           /\ Unreadable(req[t].file.content)) =>
              /\ pc'[t] = "idle"
              /\ resp'[t].kind = "redirect"
              /\ resp'[t].flash[1] = "Error processing image: "
              /\ resp'[t].flash[2] =
                   (IF req[t].file.content.kind = "undecodable"
                    THEN "UnidentifiedImageError"
                    ELSE "OSError: image file is truncated")
              /\ uploads' = uploads
              /\ \A k \in 1..Len(did'[t]) :
                    did'[t][k] \in {"Image.open", "convert",
                                    "preprocess_image"}]_vars

C11_Witness ==
    \E t \in Threads :
        /\ pc[t] = "idle"
        /\ model # None
        /\ did[t] = <<"Image.open", "convert">>
        /\ resp[t] = Redirect(Flash("Error processing image: ",
                                    "OSError: image file is truncated"))

\* C12: a request runs the forward pass at most once; when the forward pass
\* raises, the request ends at once in the error redirect carrying the
\* cause; and a request starts with the locals of the handler unbound and
\* no response or operation of an earlier request attached to it.
C12_NoRetryNoCarryOver ==
    /\ [](\A t \in Threads :
            /\ Count(t, "model.predict") <= 1
            /\ pc[t] \in {"idle", "validate", "open"} =>
                 /\ image[t] = NoImage
                 /\ processed[t] = NoShape
                 /\ decoded[t] = NoDecoded
            /\ pc[t] \in {"validate", "open"} =>
                 did[t] = <<>> /\ resp[t] = NoResp)
    /\ [][\A t \in Threads :
            (pc[t] = "predict" /\ did'[t] # did[t]) =>
                \/ /\ pc'[t] = "save"
                   /\ decoded'[t] # NoDecoded
                   /\ resp'[t] = NoResp
                \/ /\ pc'[t] = "idle"
                   /\ resp'[t] = Redirect(Flash("Error processing image: ",
                                                "InferenceError"))
                   /\ uploads' = uploads]_vars

C12_Witness ==
    /\ pc["t1"] = "idle"
    /\ resp["t1"] = Redirect(MsgError("InferenceError"))
    /\ Count("t1", "model.predict") = 1
    /\ pc["t2"] = "open"
    /\ resp["t2"] = NoResp

\* C15: a POST without an 'image' part or with an empty file name is
\* answered with the redirect flashing "No file selected", and one whose
\* file name allowed_file rejects with the redirect flashing the
\* invalid-type message, the tests being made in that order; such a request
\* opens and preprocesses no image, runs no forward pass and leaves the
\* upload folder as it was.
C15_RejectedUploadTouchesNothing ==
    [][\A t \in Threads :
          (/\ pc[t] = "validate" /\ pc'[t] # "validate"
           /\ req[t].method = "POST"
           /\ \/ ~req[t].file.present
              \/ req[t].file.filename = <<>>
              \/ ~allowed_file(req[t].file.filename)) =>
              /\ pc'[t] = "idle"
              /\ resp'[t].kind = "redirect"
              /\ resp'[t].flash[1] =
                   (IF ~req[t].file.present THEN "No file selected"
                    ELSE IF Len(req[t].file.filename) = 0
                    THEN "No file selected"
                    ELSE "Invalid file type. Please upload PNG, JPG, JPEG, or GIF files.")
              /\ did'[t] = <<>>
              /\ image'[t] = NoImage /\ processed'[t] = NoShape
              /\ decoded'[t] = NoDecoded
              /\ uploads' = uploads]_vars

C15_Witness ==
    /\ pc["t1"] = "idle" /\ did["t1"] = <<>>
    /\ resp["t1"] = Redirect(MsgNoFile)
    /\ pc["t2"] = "idle" /\ did["t2"] = <<>>
    /\ resp["t2"] = Redirect(MsgInvalidType)
    /\ \E n \in StoredNames : uploads[n] = "image"

\* C16 as stated: a step that ends a request in a redirect leaves the upload
\* folder as it was.
C16_ErrorLeavesFolderUnchanged ==
    [][\A t \in Threads :
          (pc[t] # "idle" /\ pc'[t] = "idle" /\ resp'[t].kind = "redirect")
              => uploads' = uploads]_vars

\* C16 as amended: the upload folder changes only in the step of a request
\* that calls image.save, which comes after the handle was found present
\* and the forward pass and the decoding were done; a request that ends in
\* the model-unavailable redirect, or in an error raised before image.save,
\* leaves the folder as it was; a result page is rendered only with the
\* complete image stored under the name handed to the page; a request whose
\* image.save raises ends in the error redirect and leaves the file under
\* its name as it was or incomplete.
C16_FolderWrittenOnlyBySave ==
    [][/\ uploads' # uploads =>
             \E u \in Threads : pc[u] = "save" /\ pc'[u] = "idle"
       /\ \A t \in Threads :
          /\ (pc[t] # "idle" /\ pc'[t] = "idle" /\ pc[t] # "save")
                => uploads' = uploads
          /\ (pc[t] = "save" /\ pc'[t] = "idle") =>
                /\ model # None
                /\ did[t][Len(did[t]) - 1] = "check_model"
                /\ did[t][Len(did[t])] = "model.predict"
                /\ decoded[t] # NoDecoded
                /\ LET n == secure_filename(req[t].file.filename)
                   IN  /\ \A m \in StoredNames \ {n} :
                             uploads'[m] = uploads[m]
                       /\ resp'[t].kind = "result.html" =>
                             /\ uploads'[n] = "image"
                             /\ resp'[t].image_filename = n
                       /\ resp'[t].kind # "result.html" =>
                             /\ resp'[t].kind = "redirect"
                             /\ resp'[t].flash[1] = "Error processing image: "
                             /\ uploads'[n] \in {uploads[n], "partial"}
          /\ (resp'[t].kind = "result.html" /\ resp[t].kind # "result.html")
                => pc[t] = "save"]_vars

C16_Witness ==
    \E t \in Threads :
        /\ pc[t] = "idle"
        /\ resp[t] = Redirect(MsgError("OSError"))
        /\ uploads[<<"a", ".", "P", "N", "G">>] = "partial"

(***************************************************************************)
(* Properties of allowed_file                                              *)
(***************************************************************************)
\* A character and a lower-case letter are the same letter.
SameLetter(c, l) ==
    <<c, l>> \in { <<"p", "p">>, <<"P", "p">>, <<"n", "n">>, <<"N", "n">>,
                   <<"g", "g">>, <<"G", "g">>, <<"j", "j">>, <<"J", "j">>,
                   <<"e", "e">>, <<"E", "e">>, <<"i", "i">>, <<"I", "i">>,
                   <<"f", "f">>, <<"F", "f">> }

EndsIn(n, k, e) ==
    /\ Len(n) - k = Len(e)
    /\ \A i \in 1..Len(e) : SameLetter(n[k + i], e[i])

\* C13: allowed_file answers True exactly for the names that contain a '.'
\* and whose text after the last '.' is png, jpg, jpeg or gif in any mix of
\* cases; a name with another extension or with no '.' is answered False.
C13_AllowedExactlyFourExtensions ==
    fn = "allowed_file" =>
        out = (\E k \in 1..Len(arg.name) :
                  /\ arg.name[k] = "."
                  /\ \A j \in (k + 1)..Len(arg.name) : arg.name[j] # "."
                  /\ \/ EndsIn(arg.name, k, <<"p", "n", "g">>)
                     \/ EndsIn(arg.name, k, <<"j", "p", "g">>)
                     \/ EndsIn(arg.name, k, <<"j", "p", "e", "g">>)
                     \/ EndsIn(arg.name, k, <<"g", "i", "f">>))

C13_Witness ==
    /\ fn = "allowed_file"
    /\ arg.name = <<"a", ".", "b", ".", "J", "p", "e", "g">>
    /\ out = TRUE

(***************************************************************************)
(* Properties of the two scripts                                           *)
(***************************************************************************)
ConvDid(op, outcome) ==
    \E k \in 1..Len(conv.did) : conv.did[k] = <<op, outcome>>
ConvFailed ==
    \E op \in {"load_model", "create_compatible_model", "save", "predict"} :
        ConvDid(op, "raised")
FreshDid(op, outcome) ==
    \E k \in 1..Len(fresh.did) : fresh.did[k] = <<op, outcome>>

\* C17 as stated: a call that has ended returned True, after the load, the
\* save of the weight-copied model and the test prediction succeeded, with
\* that model in the file; or one of those steps failed and it returned
\* False with the untrained model in the file.
C17_TrueOrFallbackFalse ==
    conv.pc = "done" =>
        \/ /\ conv.ret = "True"
           /\ ConvDid("load_model", "ok") /\ ConvDid("save", "ok")
           /\ ConvDid("predict", "ok")
           /\ compatible_h5 = File("converted", conv.weights)
        \/ /\ ConvFailed
           /\ conv.ret = "False"
           /\ compatible_h5 = Untrained

\* C17 as amended: convert_model returns True only after the load, the save
\* of the weight-copied model and the test prediction succeeded, and the
\* file then holds that model; a failure of one of those steps starts the
\* fallback, which returns False exactly when its build and its save
\* succeed, the file then holding the untrained model instead of whatever
\* was saved before; when the fallback's build or save raises, the call ends
\* by that exception without a return value and the file holds what it held
\* before or an incomplete write; a layer whose weights cannot be copied is
\* skipped and the loop goes on to the next layer and to the save.
C17_FallbackMayRaise ==
    /\ [](conv.pc = "done" =>
            \/ /\ conv.ret = "True"
               /\ ~ConvFailed
               /\ ConvDid("load_model", "ok") /\ ConvDid("save", "ok")
               /\ ConvDid("predict", "ok")
               /\ compatible_h5 = File("converted", conv.weights)
            \/ /\ conv.ret = "False"
               /\ ConvFailed
               /\ ConvDid("fallback_create", "ok")
               /\ ConvDid("fallback_save", "ok")
               /\ compatible_h5 = Untrained
            \/ /\ conv.ret = "raised"
               /\ ConvFailed
               /\ \/ ConvDid("fallback_create", "raised")
                  \/ ConvDid("fallback_save", "raised")
               /\ compatible_h5.kind # "untrained")
    /\ [][/\ (conv.pc \in {"load", "create", "copy", "test"}
              /\ conv'.pc \notin {conv.pc, "create", "copy", "test", "done"})
                => conv'.pc = "fallback_create" /\ conv'.ret = "none"
          /\ (conv.pc = "copy" /\ conv'.weights # conv.weights) =>
                /\ conv'.pc = "copy"
                /\ conv'.i = conv.i + 1
                /\ Len(conv'.weights) = Len(conv.weights) + 1
                /\ compatible_h5' = compatible_h5
          /\ (conv.pc = "copy" /\ conv'.pc = "test") =>
                /\ Len(conv.weights) = Min(conv.layers, CompatLayers)
                /\ compatible_h5' = File("converted", conv.weights)]_vars

C17_Witness ==
    /\ conv.pc = "done"
    /\ conv.ret = "False"
    /\ ConvDid("save", "ok")
    /\ ConvDid("predict", "raised")
    /\ \E k \in 1..Len(conv.weights) : conv.weights[k] = "initial"
    /\ compatible_h5 = Untrained

====
